---- MODULE Spec2Model ----
(***************************************************************************)
(* The task execution engines of the build repository as one state         *)
(* machine: Engine.execute (src/engine.ts), the AsyncEngine.executeAsync   *)
(* of commands/plan.ts (batch and interactive selection, modify mode) and  *)
(* the AsyncEngine.executeAsync of commands/run.ts (sequential rounds with *)
(* per-task approval and approval points), over the LaborAdapter.          *)
(***************************************************************************)
EXTENDS Integers, Sequences, FiniteSets, TLC

VARIABLES
  engine,          \* which entry point runs: "execute" | "plan" | "run"
  options,         \* [approveAll, dryRun, interactive, modify]
  policy,          \* project.policy.humanApprovalPoints (a sequence)
  project,         \* budget.total, timeline.targetEndDate and the plan's estimates
  gates,           \* how the checks of run() and the approval points were decided
  tasks,           \* project.plan.tasks (a sequence of task records)
  phase,           \* project.state.currentPhase
  executionLog,    \* project.state.executionLog
  completedTasks,  \* project.state.completedTasks
  lastModified,    \* project.metadata.lastModified
  pc,              \* position of the executing engine
  exit,            \* how execute/executeAsync ended: "none" while running
  executedTasks,   \* the local Set executedTasks (execute, plan.ts)
  executionState,  \* the local executionState object of run.ts
  taskMapSize,     \* plan.ts taskMap holds the first taskMapSize tasks
  modifications,   \* the changes made in modify mode so far
  readyTasks,      \* the current round's readyTasks (indices into tasks)
  idx,             \* position of the for loop / map over readyTasks
  pidx,            \* position of the loop over approval points (run.ts)
  exec,            \* per task: where its executeTask call stands
  jobOf,           \* per task: the jobId its executeLaborTask call holds
  jobs,            \* LaborAdapter jobs, by job number: the job's status
  adapterCalls,    \* the adapter operations invoked so far
  now,             \* Date.now()
  hist             \* per task: what has happened to it in this run

vars == <<engine, options, policy, project, gates, tasks, phase, executionLog, completedTasks,
          lastModified, pc, exit, executedTasks, executionState, taskMapSize,
          modifications, readyTasks, idx, pidx, exec, jobOf, jobs, adapterCalls, now, hist>>

inputVars == <<engine, options, policy, project, gates>>
projectVars == <<tasks, phase, executionLog, completedTasks, lastModified>>
adapterVars == <<jobOf, jobs, adapterCalls>>
loopVars == <<executedTasks, executionState, taskMapSize, modifications,
              readyTasks, idx, pidx>>

----------------------------------------------------------------------------
(* Bounds of the model *)

\* Date.now() takes the values 0..MaxClock
MaxClock == 1
\* the adapter accepts at most MaxJobs jobs; a further postJob throws
MaxJobs == 2
\* the user makes at most MaxModifications changes in modify mode
MaxModifications == 1

(* Program constants *)

\* requiresApproval: estimatedCost.amount > 5000
HighCostThreshold == 5000
\* addNewTask: estimatedCost = estimatedHours * 3000
DefaultHourlyCost == 3000
\* run: daysToComplete assumes 8 hours per day
HoursPerDay == 8
\* run: 24 * 60 * 60 * 1000 milliseconds per day
MsPerDay == 86400000

----------------------------------------------------------------------------
(* Tasks and plans *)

Range(s) == {s[k] : k \in 1..Len(s)}

Task(id, deps, skills, priority, cost) ==
  [id |-> id, dependsOn |-> deps, skills |-> skills, priority |-> priority,
   estimatedCost |-> cost, estimatedHours |-> 1, status |-> "pending",
   startTime |-> <<>>, endTime |-> <<>>]

\* the ids and dependsOn lists of the plans the runs are drawn from
Shapes ==
  { << <<"A", {}>>, <<"B", {"A"}>>, <<"C", {"B"}>> >>,      \* chain
    << <<"A", {}>>, <<"B", {}>>, <<"C", {"B"}>> >>,         \* independent branch
    << <<"A", {}>>, <<"B", {}>>, <<"C", {"A", "B"}>> >>,    \* join
    << <<"B", {"A"}>>, <<"A", {}>> >>,                      \* not in dependency order
    << <<"A", {}>>, <<"B", {"C"}>>, <<"C", {"B"}>> >>,      \* cycle beside a free task
    << <<"A", {"A"}>>, <<"B", {}>> >>,                      \* self dependency
    << <<"A", {}>>, <<"B", {"Z"}>> >>,                      \* dangling reference
    << <<"A", {}>> >> }

\* skills, priority and estimatedCost.amount of the task at each position:
\* no task requires approval
PlainProfile ==
  << <<{"assembly", "labor"}, "medium", 3000>>,
     <<{"general"}, "medium", 3000>>,
     <<{"basic_tools"}, "medium", 3000>> >>

\* every task requires approval (run.ts requiresApproval), for another reason
GatedProfile ==
  << <<{"assembly"}, "critical", 3000>>,
     <<{"general"}, "medium", 6000>>,
     <<{"specialized"}, "medium", 3000>> >>

Profiles == {PlainProfile, GatedProfile}

Plan(shape, profile) ==
  [k \in 1..Len(shape) |->
     Task(shape[k][1], shape[k][2], profile[k][1], profile[k][2], profile[k][3])]

Ids(ts) == {ts[k].id : k \in 1..Len(ts)}

\* the tasks (indices) a task depends on, directly
DepsOf(ts, i) == {j \in 1..Len(ts) : ts[j].id \in ts[i].dependsOn}

RECURSIVE Reach(_, _, _)
\* the tasks reachable from the set s along dependsOn, in at most n steps
Reach(ts, s, n) ==
  IF n = 0 THEN s
  ELSE Reach(ts, s \cup UNION {DepsOf(ts, i) : i \in s}, n - 1)

\* task i depends on task j, directly or transitively
DependsOnTrans(ts, i, j) == j \in Reach(ts, DepsOf(ts, i), Len(ts))

\* the dependsOn relation has a cycle (a self dependency included)
Cyclic(ts) == \E i \in 1..Len(ts) : DependsOnTrans(ts, i, i)

\* some dependsOn entry names no task of the plan
Dangling(ts) == \E i \in 1..Len(ts) : ~(ts[i].dependsOn \subseteq Ids(ts))

----------------------------------------------------------------------------
(* Pure functions of the engines *)

getReadyTasks_NoDependencyCheck(taskPlan, executed) ==
  SelectSeq([k \in 1..Len(taskPlan) |-> k],
            LAMBDA k : taskPlan[k].id \notin executed)

getReadyTasks_AnyDependency(taskPlan, executed) ==
  SelectSeq([k \in 1..Len(taskPlan) |-> k],
            LAMBDA k : /\ taskPlan[k].id \notin executed
                       /\ \/ taskPlan[k].dependsOn = {}
                          \/ \E dep \in taskPlan[k].dependsOn : dep \in executed)

\* Engine.getReadyTasks: the tasks, in plan order, that are not executed and
\* whose every dependency is executed (as indices into the plan)
getReadyTasks(taskPlan, executed) ==
  SelectSeq([k \in 1..Len(taskPlan) |-> k],
            LAMBDA k : /\ taskPlan[k].id \notin executed
                       /\ \A dep \in taskPlan[k].dependsOn : dep \in executed)

\* Engine.executeTask: a task with skill assembly or basic_tools is a labor task
IsLaborTask(task) == "assembly" \in task.skills \/ "basic_tools" \in task.skills

\* run.ts requiresApproval
requiresApproval(task) ==
  \/ task.priority = "critical"
  \/ task.estimatedCost > HighCostThreshold
  \/ "specialized" \in task.skills

\* run.ts shouldTriggerApproval
shouldTriggerApproval(approvalPoint) ==
  CASE approvalPoint = "plan" -> Len(executionState.completedTasks) = 0
    [] approvalPoint = "labor_hire" ->
         \E k \in 1..Len(tasks) : /\ "labor" \in tasks[k].skills
                                  /\ tasks[k].id \notin Range(executionState.completedTasks)
    [] OTHER -> FALSE

DryRunSkips_Never == FALSE

\* executeTask / executeTaskAsync return at once in a dry run
DryRunSkips == options.dryRun

\* Date.now(): the clock has not gone back since it was last read
DateNow(t) == t \in now..(now + 1) /\ t <= MaxClock

----------------------------------------------------------------------------
(* History of a task in this run *)

NoHistory ==
  [dispatches |-> "never", offers |-> "never", rejected |-> FALSE,
   failed |-> FALSE, finished |-> FALSE]

Again(count) == IF count = "never" THEN "once" ELSE "again"

Dispatched(h, i) == [h EXCEPT ![i].dispatches = Again(h[i].dispatches)]
Offered(h, i) == [h EXCEPT ![i].offers = Again(h[i].offers)]
Rejected(h, i) == [h EXCEPT ![i].rejected = TRUE]
Finished(h, i, ok) ==
  [h EXCEPT ![i].finished = TRUE, ![i].failed = h[i].failed \/ ~ok]

----------------------------------------------------------------------------
(* Initial state: a project as loaded, before execute / executeAsync runs *)

Options ==
  [approveAll : BOOLEAN, dryRun : BOOLEAN, interactive : BOOLEAN, modify : BOOLEAN]

Policies == { <<>>, <<"plan", "labor_hire">> }
ApprovalPoints == {"plan", "labor_hire"}

\* enum ProjectStatus
ProjectStatus ==
  {"PLAN", "ESTIMATE", "APPROVAL_PENDING", "SCHEDULE", "EXECUTE", "COMPLETED",
   "FAILED", "CANCELLED"}

\* Math.ceil(a / b) for b > 0
CeilDiv(a, b) == -((-a) \div b)

\* a project within its budget and its timeline
FundedProject ==
  [status |-> "PLAN", budgetTotal |-> 6000, estimatedCost |-> 6000,
   estimatedDuration |-> HoursPerDay, targetEndDate |-> MsPerDay]

\* project files on and over their budget, within and past their timeline,
\* with a metadata.status of the enum or not
Projects ==
  [status : {"PLAN", "INVALID_STATUS"},
   budgetTotal : {6000}, estimatedCost : {6000, 12000},
   estimatedDuration : {HoursPerDay, HoursPerDay + 1}, targetEndDate : {0, MsPerDay}]

\* a plan as an earlier run left it: the tasks at the positions in done are
\* completed
Resumed(taskPlan, done) ==
  [k \in 1..Len(taskPlan) |->
     IF k \in done
     THEN [taskPlan[k] EXCEPT !.status = "completed", !.endTime = <<0>>]
     ELSE taskPlan[k]]

\* the positions an earlier run can have completed: with each task the tasks
\* it depends on
Resumable(taskPlan) ==
  {done \in SUBSET (1..Len(taskPlan)) :
     \A k \in done : \A dep \in taskPlan[k].dependsOn :
       \E j \in done : taskPlan[j].id = dep}

InitOf(shapes, projects, resumed) ==
  /\ engine \in {"execute", "plan", "run"}
  /\ options \in Options
  \* only plan.ts reads interactive and modify; only execute and run.ts read the policy
  /\ engine # "plan" => ~options.interactive /\ ~options.modify
  /\ policy \in Policies
  /\ engine = "plan" => policy = <<>>
  \* only run.ts reads what the profiles differ in
  /\ \E shape \in shapes, profile \in Profiles :
       /\ engine # "run" => profile = PlainProfile
       /\ \E done \in Resumable(Plan(shape, profile)) :
            /\ resumed <=> done # {}
            /\ tasks = Resumed(Plan(shape, profile), done)
            /\ completedTasks = SelectSeq([k \in 1..Len(shape) |-> shape[k][1]],
                                          LAMBDA id : \E k \in done : shape[k][1] = id)
  \* build.ts calls Engine.execute without a budget or timeline check
  /\ project \in projects
  /\ engine = "execute" => project = FundedProject
  /\ gates = [budget |-> "none", timeline |-> "none",
              points |-> [p \in ApprovalPoints |-> [fired |-> "never", by |-> "none"]]]
  /\ phase = IF resumed THEN "EXECUTE" ELSE "PLAN"
  /\ executionLog = <<>>
  /\ lastModified = 0
  /\ pc = IF engine = "execute" THEN "start" ELSE "load"
  /\ exit = "none"
  /\ executedTasks = {}
  /\ executionState = [completedTasks |-> <<>>, blockedTasks |-> {},
                       pendingApprovals |-> {}, executionLog |-> <<>>]
  /\ taskMapSize = 0
  /\ modifications = 0
  /\ readyTasks = <<>>
  /\ idx = 1
  /\ pidx = 1
  /\ exec = [k \in 1..Len(tasks) |-> "idle"]
  /\ jobOf = [k \in 1..Len(tasks) |-> 0]
  /\ jobs = <<>>
  /\ adapterCalls = {}
  /\ now = 0
  /\ hist = [k \in 1..Len(tasks) |-> NoHistory]

Init == InitOf(Shapes, {FundedProject}, FALSE)

----------------------------------------------------------------------------
(* commands/run.ts and commands/plan.ts: loadPlan and the pre-execution     *)
(* checks of run                                                            *)

\* ProjectSchema.parse: the record is accepted when its metadata.status is a
\* ProjectStatus value (the other fields of the files here are valid)
ProjectSchemaAccepts(record) == record.status \in ProjectStatus

loadPlan_SwallowsError(record) == "budget"

\* loadPlan: the parsed project, or 'Failed to load plan from ...' thrown
\* (where run then stands)
loadPlan(record) == IF ProjectSchemaAccepts(record) THEN "budget" ELSE "done"

\* const project = loadPlan(planPath), the first statement of run
G_Load ==
  /\ pc = "load" /\ engine \in {"plan", "run"}
  /\ pc' = loadPlan(project)
  /\ exit' = IF pc' = "done" THEN "load_error" ELSE exit
  /\ UNCHANGED <<inputVars, projectVars, loopVars, exec, adapterVars, now, hist>>

GateOutcome_AlwaysAsks(exceeded, proceed) ==
  IF ~exceeded THEN "passed" ELSE IF proceed THEN "approved" ELSE "rejected"

\* a check of run: passed, waved through by approve-all, or put to the human
GateOutcome(exceeded, proceed) ==
  IF ~exceeded THEN "passed"
  ELSE IF options.approveAll THEN "auto"
  ELSE IF proceed THEN "approved" ELSE "rejected"

AfterGate_NeverCancels(outcome, next) == next

\* 'Execution cancelled.' and return, or on to the next check
AfterGate(outcome, next) == IF outcome = "rejected" THEN "done" ELSE next

\* the budget check of run
G_Budget ==
  /\ pc = "budget" /\ engine \in {"plan", "run"}
  /\ \E proceed \in BOOLEAN :
       LET outcome == GateOutcome(project.estimatedCost > project.budgetTotal, proceed) IN
       /\ gates' = [gates EXCEPT !.budget = outcome]
       /\ pc' = AfterGate(outcome, "timeline")
       /\ exit' = IF pc' = "done" THEN "cancelled" ELSE exit
  /\ UNCHANGED <<engine, options, policy, project, projectVars, loopVars, exec,
                 adapterVars, now, hist>>

\* the timeline check of run
G_Timeline ==
  /\ pc = "timeline" /\ engine \in {"plan", "run"}
  /\ \E t \in 0..MaxClock, proceed \in BOOLEAN :
       LET daysToComplete == CeilDiv(project.estimatedDuration, HoursPerDay)
           availableDays == CeilDiv(project.targetEndDate - t, MsPerDay)
           outcome == GateOutcome(daysToComplete > availableDays, proceed) IN
       /\ DateNow(t) /\ now' = t
       /\ gates' = [gates EXCEPT !.timeline = outcome]
       /\ pc' = AfterGate(outcome, "start")
       /\ exit' = IF pc' = "done" THEN "cancelled" ELSE exit
  /\ UNCHANGED <<engine, options, policy, project, projectVars, loopVars, exec,
                 adapterVars, hist>>

----------------------------------------------------------------------------
(* The LaborAdapter and Engine.executeTask *)

InFlight == {"prep", "listBids", "acceptBid", "markDone"}
Settling == {"ret", "thrown"}
Results == InFlight \cup Settling

\* the local jobId of executeLaborTask, gone when the call returns or throws
Held(i, res) == IF res \in Settling THEN [jobOf EXCEPT ![i] = 0] ELSE jobOf

\* LaborAdapter.postJob, called by executeLaborTask: a new job, status posted
postJob(i, res) ==
  /\ adapterCalls' = adapterCalls \cup {"postJob"}
  /\ \/ /\ Len(jobs) < MaxJobs
        /\ jobs' = Append(jobs, "posted")
        /\ jobOf' = [jobOf EXCEPT ![i] = Len(jobs) + 1]
        /\ res = "listBids"
     \/ /\ res = "thrown"
        /\ UNCHANGED <<jobs, jobOf>>

\* LaborAdapter.listBids: some bids, no bid, or an error
listBids(i, res) ==
  /\ adapterCalls' = adapterCalls \cup {"listBids"}
  /\ res \in {"acceptBid", "ret", "thrown"}
  /\ jobOf' = Held(i, res)
  /\ UNCHANGED jobs

\* LaborAdapter.acceptBid: the job becomes accepted, or an error
acceptBid(i, res) ==
  /\ adapterCalls' = adapterCalls \cup {"acceptBid"}
  /\ \/ /\ res = "markDone"
        /\ jobs' = [jobs EXCEPT ![jobOf[i]] = "accepted"]
     \/ /\ res = "thrown"
        /\ UNCHANGED jobs
  /\ jobOf' = Held(i, res)

\* LaborAdapter.markDone: the job becomes completed, or an error
markDone(i, res) ==
  /\ adapterCalls' = adapterCalls \cup {"markDone"}
  /\ \/ /\ res = "ret"
        /\ jobs' = [jobs EXCEPT ![jobOf[i]] = "completed"]
     \/ /\ res = "thrown"
        /\ UNCHANGED jobs
  /\ jobOf' = Held(i, res)

\* Engine.executeTask up to its first await: res is where the call then stands
\* ("ret": it returned, "thrown": it threw, else the operation it awaits)
executeTask(i, res) ==
  IF DryRunSkips
  THEN res = "ret" /\ UNCHANGED adapterVars
  ELSE IF IsLaborTask(tasks[i])
       THEN postJob(i, res)
       ELSE res = "prep" /\ UNCHANGED adapterVars

\* the next step of an executeTask call in flight: executeLaborTask after
\* postJob, or the timer of executePreparationTask
continueTask(i, res) ==
  CASE exec[i] = "prep" -> res = "ret" /\ UNCHANGED adapterVars
    [] exec[i] = "listBids" -> listBids(i, res)
    [] exec[i] = "acceptBid" -> acceptBid(i, res)
    [] exec[i] = "markDone" -> markDone(i, res)

\* the position after the task at idx of readyTasks is dealt with
NextInRound(after) == IF idx + 1 > Len(readyTasks) THEN after ELSE "for"

----------------------------------------------------------------------------
(* Engine.execute *)

LaborHireApprovalRequired_FlagInverted ==
  "labor_hire" \in Range(policy) /\ options.approveAll

\* humanApprovalPoints.includes('labor_hire') && !options.approveAll
LaborHireApprovalRequired ==
  "labor_hire" \in Range(policy) /\ ~options.approveAll

E_Start ==
  /\ pc = "start" /\ engine = "execute"
  /\ IF LaborHireApprovalRequired
     THEN pc' = "done" /\ exit' = "approval_required"
     ELSE pc' = "loop" /\ exit' = exit
  /\ executedTasks' = {}
  /\ taskMapSize' = Len(tasks)
  /\ UNCHANGED <<inputVars, projectVars, executionState, modifications,
                 readyTasks, idx, pidx, exec, adapterVars, now, hist>>

E_Loop ==
  /\ pc = "loop" /\ engine = "execute"
  /\ IF Cardinality(executedTasks) < Len(tasks)
     THEN LET ready == getReadyTasks(tasks, executedTasks) IN
          /\ readyTasks' = ready
          /\ idx' = 1
          /\ IF ready = <<>>
             THEN pc' = "done" /\ exit' = "no_ready"
             ELSE pc' = "for" /\ exit' = exit
     ELSE /\ pc' = "done" /\ exit' = "completed"
          /\ UNCHANGED <<readyTasks, idx>>
  /\ UNCHANGED <<inputVars, projectVars, executedTasks, executionState,
                 taskMapSize, modifications, pidx, exec, adapterVars, now, hist>>

\* the for loop of execute once executeTask(task) stands at res
E_Continue(i, res, h) ==
  CASE res = "ret" ->
         /\ executedTasks' = executedTasks \cup {tasks[i].id}
         /\ idx' = idx + 1
         /\ pc' = NextInRound("loop")
         /\ exec' = [exec EXCEPT ![i] = "idle"]
         /\ hist' = Finished(h, i, TRUE)
         /\ exit' = exit
    [] res = "thrown" ->
         /\ pc' = "done" /\ exit' = "threw"
         /\ exec' = [exec EXCEPT ![i] = "idle"]
         /\ hist' = Finished(h, i, FALSE)
         /\ UNCHANGED <<executedTasks, idx>>
    [] OTHER ->
         /\ pc' = "await"
         /\ exec' = [exec EXCEPT ![i] = res]
         /\ hist' = h
         /\ UNCHANGED <<executedTasks, idx, exit>>

\* for (const task of readyTasks) await this.executeTask(task, ...)
E_For ==
  /\ pc = "for" /\ engine = "execute"
  /\ LET i == readyTasks[idx] IN
     \E res \in Results :
       /\ executeTask(i, res)
       /\ E_Continue(i, res, Dispatched(hist, i))
  /\ UNCHANGED <<inputVars, projectVars, executionState, taskMapSize,
                 modifications, readyTasks, pidx, now>>

E_Step ==
  /\ pc = "await" /\ engine = "execute"
  /\ LET i == readyTasks[idx] IN
     \E res \in Results :
       /\ continueTask(i, res)
       /\ E_Continue(i, res, hist)
  /\ UNCHANGED <<inputVars, projectVars, executionState, taskMapSize,
                 modifications, readyTasks, pidx, now>>

----------------------------------------------------------------------------
(* commands/plan.ts: AsyncEngine.executeAsync *)

LogEntry(taskId, action) ==
  [id |-> "log_" \o ToString(now'), timestamp |-> now', taskId |-> taskId,
   action |-> action]

\* taskMap.get(id): the task the Map built at the start holds for the id
\* (0: undefined)
taskMapGet(id) ==
  LET held == {k \in 1..taskMapSize : tasks[k].id = id} IN
  IF held = {} THEN 0 ELSE CHOOSE k \in held : \A m \in held : m <= k

\* executeTaskAsync after await this.executeTask(...): the task is completed
P_Completed(i) ==
  /\ \E t \in 0..MaxClock : DateNow(t) /\ now' = t
  /\ tasks' = [tasks EXCEPT ![i].status = "completed", ![i].endTime = <<now'>>]
  /\ completedTasks' = Append(completedTasks, tasks[i].id)
  /\ executionLog' = Append(executionLog, LogEntry(tasks[i].id, "completed"))
  /\ exec' = [exec EXCEPT ![i] = "ok"]
  /\ hist' = Finished(hist, i, TRUE)

\* the catch block of executeTaskAsync: the task is failed, the error rethrown
P_Failed(i) ==
  /\ \E t \in 0..MaxClock : DateNow(t) /\ now' = t
  /\ tasks' = [tasks EXCEPT ![i].status = "failed", ![i].endTime = <<now'>>]
  /\ executionLog' = Append(executionLog, LogEntry(tasks[i].id, "failed"))
  /\ exec' = [exec EXCEPT ![i] = "failed"]
  /\ hist' = Finished(hist, i, FALSE)
  /\ UNCHANGED completedTasks

\* executeTaskAsync up to its first await
executeTaskAsync(i) ==
  IF DryRunSkips
  THEN /\ exec' = [exec EXCEPT ![i] = "ok"]
       /\ hist' = Finished(Dispatched(hist, i), i, TRUE)
       /\ UNCHANGED <<tasks, executionLog, adapterVars, now>>
  ELSE /\ \E t \in 0..MaxClock : DateNow(t) /\ now' = t
       /\ tasks' = [tasks EXCEPT ![i].status = "in_progress",
                                 ![i].startTime = <<now'>>]
       /\ executionLog' = Append(executionLog, LogEntry(tasks[i].id, "started"))
       /\ hist' = Dispatched(hist, i)
       /\ \E res \in Results :
            /\ executeTask(i, res)
            /\ exec' = [exec EXCEPT ![i] = res]

P_Start ==
  /\ pc = "start" /\ engine = "plan"
  /\ phase' = "EXECUTE"
  /\ \E t \in 0..MaxClock : DateNow(t) /\ now' = t
  /\ lastModified' = now'
  /\ executedTasks' = {}
  /\ taskMapSize' = Len(tasks)
  /\ pc' = "loop"
  /\ UNCHANGED <<inputVars, tasks, executionLog, completedTasks, exit,
                 executionState, modifications, readyTasks, idx, pidx, exec,
                 adapterVars, hist>>

P_Loop ==
  /\ pc = "loop" /\ engine = "plan"
  /\ IF Cardinality(executedTasks) < Len(tasks)
     THEN LET ready == getReadyTasks(tasks, executedTasks) IN
          /\ readyTasks' = ready
          /\ idx' = 1
          /\ IF ready = <<>>
             THEN pc' = "done" /\ exit' = "no_ready"
             ELSE /\ pc' = IF options.interactive THEN "select" ELSE "for"
                  /\ exit' = exit
          /\ UNCHANGED <<phase, lastModified, now>>
     ELSE /\ phase' = "COMPLETED"
          /\ \E t \in 0..MaxClock : DateNow(t) /\ now' = t
          /\ lastModified' = now'
          /\ pc' = "done" /\ exit' = "completed"
          /\ UNCHANGED <<readyTasks, idx>>
  /\ UNCHANGED <<inputVars, tasks, executionLog, completedTasks, executedTasks,
                 executionState, taskMapSize, modifications, pidx, exec,
                 adapterVars, hist>>

\* interactive selection: the user picks one ready task
P_Select ==
  /\ pc = "select" /\ engine = "plan"
  /\ \E k \in 1..Len(readyTasks) :
       LET selectedTaskId == tasks[readyTasks[k]].id
           selectedTask == taskMapGet(selectedTaskId) IN
       IF selectedTask = 0
       THEN \* executeTaskAsync(undefined) throws on task.name
            /\ pc' = "done" /\ exit' = "threw"
            /\ UNCHANGED <<tasks, executionLog, readyTasks, exec, adapterVars,
                           hist, now>>
       ELSE /\ executeTaskAsync(selectedTask)
            /\ readyTasks' = <<selectedTask>>
            /\ pc' = "all" /\ exit' = exit
  /\ UNCHANGED <<inputVars, phase, completedTasks, lastModified, executedTasks,
                 executionState, taskMapSize, modifications, idx, pidx>>

\* batch: readyTasks.map(task => this.executeTaskAsync(task, ...))
P_For ==
  /\ pc = "for" /\ engine = "plan"
  /\ executeTaskAsync(readyTasks[idx])
  /\ idx' = idx + 1
  /\ pc' = NextInRound("all")
  /\ UNCHANGED <<inputVars, phase, completedTasks, lastModified, exit,
                 executedTasks, executionState, taskMapSize, modifications,
                 readyTasks, pidx>>

\* a dispatched executeTask call goes on (also after executeAsync has thrown),
\* and executeTaskAsync with it once the call returns or throws
P_Step(i) ==
  /\ engine = "plan" /\ pc # "for"
  /\ exec[i] \in InFlight
  /\ \E res \in Results :
       /\ continueTask(i, res)
       /\ CASE res = "ret" -> P_Completed(i)
            [] res = "thrown" -> P_Failed(i)
            [] OTHER -> /\ exec' = [exec EXCEPT ![i] = res]
                        /\ UNCHANGED <<tasks, completedTasks, executionLog, now, hist>>
  /\ UNCHANGED <<inputVars, phase, lastModified, pc, exit, loopVars>>

\* the catch block for an executeTask call that threw before its first await
P_Catch(i) ==
  /\ engine = "plan" /\ pc # "for"
  /\ exec[i] = "thrown"
  /\ P_Failed(i)
  /\ UNCHANGED <<inputVars, phase, lastModified, pc, exit, loopVars, adapterVars>>

\* await Promise.all(executionPromises) / await executeTaskAsync(selectedTask)
P_All ==
  /\ pc = "all" /\ engine = "plan"
  /\ IF \E k \in Range(readyTasks) : exec[k] = "failed"
     THEN /\ pc' = "done" /\ exit' = "threw"
          /\ UNCHANGED <<executedTasks, exec>>
     ELSE /\ \A k \in Range(readyTasks) : exec[k] = "ok"
          /\ executedTasks' = executedTasks \cup {tasks[k].id : k \in Range(readyTasks)}
          /\ exec' = [k \in 1..Len(tasks) |->
                        IF k \in Range(readyTasks) THEN "idle" ELSE exec[k]]
          /\ pc' = IF options.modify /\ ~options.dryRun THEN "modify" ELSE "loop"
          /\ exit' = exit
  /\ UNCHANGED <<inputVars, projectVars, executionState, taskMapSize, modifications,
                 readyTasks, idx, pidx, adapterVars, now, hist>>

\* the hours the user may enter at a number prompt (the tasks start with 1)
HoursChoices == {2}

\* addNewTask: the task pushed to project.plan.tasks
NewTask(estimatedHours) ==
  [Task("task_" \o ToString(now'), {}, {"general"}, "medium",
        estimatedHours * DefaultHourlyCost)
     EXCEPT !.estimatedHours = estimatedHours]

\* remainingTasks.find(t => t.id === taskId)
FirstWithId(remaining, id) ==
  CHOOSE k \in remaining :
    tasks[k].id = id /\ \A m \in remaining : tasks[m].id = id => k <= m

RemainingTasks_All == 1..Len(tasks)

\* project.plan.tasks.filter(task => !executedTasks.has(task.id))
RemainingTasks == {k \in 1..Len(tasks) : tasks[k].id \notin executedTasks}

\* the modify prompt after a round, and modifyRemainingTasks
P_Modify ==
  /\ pc = "modify" /\ engine = "plan"
  /\ pc' = "loop"
  /\ LET remainingTasks == RemainingTasks IN
     \/ \* shouldModify = false, no remaining task, or 'continue'
        UNCHANGED <<tasks, modifications, exec, jobOf, hist, now>>
     \/ \* skipTask
        /\ modifications < MaxModifications
        /\ modifications' = modifications + 1
        /\ \E k \in remainingTasks :
             tasks' = [tasks EXCEPT
                         ![FirstWithId(remainingTasks, tasks[k].id)].status = "cancelled"]
        /\ UNCHANGED <<exec, jobOf, hist, now>>
     \/ \* modifyTaskEstimates
        /\ modifications < MaxModifications
        /\ modifications' = modifications + 1
        /\ \E k \in remainingTasks, newHours \in HoursChoices :
             tasks' = [tasks EXCEPT
                         ![FirstWithId(remainingTasks, tasks[k].id)].estimatedHours = newHours]
        /\ UNCHANGED <<exec, jobOf, hist, now>>
     \/ \* addNewTask
        /\ modifications < MaxModifications
        /\ modifications' = modifications + 1
        /\ remainingTasks # {}
        /\ \E t \in 0..MaxClock : DateNow(t) /\ now' = t
        /\ \E estimatedHours \in HoursChoices :
             tasks' = Append(tasks, NewTask(estimatedHours))
        /\ exec' = Append(exec, "idle")
        /\ jobOf' = Append(jobOf, 0)
        /\ hist' = Append(hist, NoHistory)
  /\ UNCHANGED <<inputVars, phase, executionLog, completedTasks, lastModified,
                 exit, executedTasks, executionState, taskMapSize, readyTasks,
                 idx, pidx, jobs, adapterCalls>>

----------------------------------------------------------------------------
(* commands/run.ts: AsyncEngine.executeAsync *)

\* Set.add on a Set kept in insertion order
SetAdd(seq, x) == IF x \in Range(seq) THEN seq ELSE Append(seq, x)

R_Start ==
  /\ pc = "start" /\ engine = "run"
  /\ phase' = "EXECUTE"
  /\ \E t \in 0..MaxClock : DateNow(t) /\ now' = t
  /\ lastModified' = now'
  /\ executionState' = [completedTasks |-> <<>>, blockedTasks |-> {},
                        pendingApprovals |-> {}, executionLog |-> <<>>]
  /\ pc' = "loop"
  /\ UNCHANGED <<inputVars, tasks, executionLog, completedTasks, exit,
                 executedTasks, taskMapSize, modifications, readyTasks, idx,
                 pidx, exec, adapterVars, hist>>

\* the while condition, getReadyTasks and the break; the final state update
R_Loop ==
  /\ pc = "loop" /\ engine = "run"
  /\ LET ready == getReadyTasks(tasks, Range(executionState.completedTasks)) IN
     IF Len(executionState.completedTasks) < Len(tasks) /\ ready # <<>>
     THEN /\ readyTasks' = ready
          /\ idx' = 1
          /\ pc' = "for"
          /\ UNCHANGED <<phase, completedTasks, lastModified, exit, now>>
     ELSE /\ phase' = "COMPLETED"
          /\ completedTasks' = executionState.completedTasks
          /\ \E t \in 0..MaxClock : DateNow(t) /\ now' = t
          /\ lastModified' = now'
          /\ pc' = "done" /\ exit' = "completed"
          /\ UNCHANGED <<readyTasks, idx>>
  /\ UNCHANGED <<inputVars, tasks, executionLog, executedTasks, executionState,
                 taskMapSize, modifications, pidx, exec, adapterVars, hist>>

\* executeTaskWithAsyncFlow once executeTask(task) stands at res
R_Continue(i, res, h) ==
  CASE res = "ret" ->
         /\ \E t \in 0..MaxClock : DateNow(t) /\ now' = t
         /\ tasks' = [tasks EXCEPT ![i].status = "completed", ![i].endTime = <<now'>>]
         /\ executionState' =
              [executionState EXCEPT
                 !.completedTasks = SetAdd(@, tasks[i].id),
                 !.executionLog = Append(@, [timestamp |-> now', taskId |-> tasks[i].id,
                                             action |-> "completed"])]
         /\ exec' = [exec EXCEPT ![i] = "idle"]
         /\ hist' = Finished(h, i, TRUE)
         /\ idx' = idx + 1
         /\ pc' = NextInRound("points")
    [] res = "thrown" ->
         /\ tasks' = [tasks EXCEPT ![i].status = "failed"]
         /\ executionState' =
              [executionState EXCEPT !.blockedTasks = @ \cup {tasks[i].id}]
         /\ exec' = [exec EXCEPT ![i] = "idle"]
         /\ hist' = Finished(h, i, FALSE)
         /\ idx' = idx + 1
         /\ pc' = NextInRound("points")
         /\ now' = now
    [] OTHER ->
         /\ pc' = "await"
         /\ exec' = [exec EXCEPT ![i] = res]
         /\ hist' = h
         /\ UNCHANGED <<tasks, executionState, idx, now>>

\* executeTaskWithAsyncFlow from the spinner on: the task is dispatched
R_Dispatch(i) ==
  \E res \in Results :
    /\ executeTask(i, res)
    /\ R_Continue(i, res, Dispatched(hist, i))

\* for (const task of readyTasks): the approval check of executeTaskWithAsyncFlow
R_For ==
  /\ pc = "for" /\ engine = "run"
  /\ LET i == readyTasks[idx] IN
     IF requiresApproval(tasks[i]) /\ ~options.approveAll
     THEN /\ pc' = "prompt"
          /\ hist' = Offered(hist, i)
          /\ UNCHANGED <<tasks, executionState, idx, exec, adapterVars, now>>
     ELSE R_Dispatch(i)
  /\ UNCHANGED <<inputVars, phase, executionLog, completedTasks, lastModified,
                 exit, executedTasks, taskMapSize, modifications, readyTasks, pidx>>

\* the user answers 'Approve execution of ...?'
R_Prompt ==
  /\ pc = "prompt" /\ engine = "run"
  /\ LET i == readyTasks[idx] IN
     \/ R_Dispatch(i)
     \/ /\ executionState' =
             [executionState EXCEPT !.blockedTasks = @ \cup {tasks[i].id}]
        /\ hist' = Rejected(hist, i)
        /\ idx' = idx + 1
        /\ pc' = NextInRound("points")
        /\ UNCHANGED <<tasks, exec, adapterVars, now>>
  /\ UNCHANGED <<inputVars, phase, executionLog, completedTasks, lastModified,
                 exit, executedTasks, taskMapSize, modifications, readyTasks, pidx>>

R_Step ==
  /\ pc = "await" /\ engine = "run"
  /\ LET i == readyTasks[idx] IN
     \E res \in Results :
       /\ continueTask(i, res)
       /\ R_Continue(i, res, hist)
  /\ UNCHANGED <<inputVars, phase, executionLog, completedTasks, lastModified,
                 exit, executedTasks, taskMapSize, modifications, readyTasks, pidx>>

\* checkApprovalPoints: the approval point at pidx
R_Points ==
  /\ pc = "points" /\ engine = "run"
  /\ IF pidx > Len(policy)
     THEN /\ pc' = "loop" /\ pidx' = 1
          /\ UNCHANGED <<executionState, now>>
     ELSE LET approvalPoint == policy[pidx] IN
          IF approvalPoint \in executionState.pendingApprovals
             \/ ~shouldTriggerApproval(approvalPoint)
          THEN /\ pidx' = pidx + 1 /\ pc' = pc
               /\ UNCHANGED <<executionState, now>>
          ELSE \/ \* approved, by the user or by approveAll
                  /\ \E t \in 0..MaxClock : DateNow(t) /\ now' = t
                  /\ executionState' =
                       [executionState EXCEPT
                          !.pendingApprovals = @ \cup {approvalPoint},
                          !.executionLog = Append(@, [timestamp |-> now',
                                                      taskId |-> approvalPoint,
                                                      action |-> "approval"])]
                  /\ pidx' = pidx + 1 /\ pc' = pc
               \/ \* rejected by the user: checkApprovalPoints returns
                  /\ ~options.approveAll
                  /\ pc' = "loop" /\ pidx' = 1
                  /\ UNCHANGED <<executionState, now>>
  /\ gates' =
       IF pidx <= Len(policy)
          /\ policy[pidx] \notin executionState.pendingApprovals
          /\ shouldTriggerApproval(policy[pidx])
       THEN [gates EXCEPT !.points[policy[pidx]] =
               [fired |-> Again(@.fired),
                by |-> IF options.approveAll THEN "auto" ELSE "human"]]
       ELSE gates
  /\ UNCHANGED <<engine, options, policy, project, projectVars, exit,
                 executedTasks, taskMapSize, modifications, readyTasks, idx,
                 exec, adapterVars, hist>>

P_Steps == \E i \in 1..Len(tasks) : P_Step(i)

P_Catches == \E i \in 1..Len(tasks) : P_Catch(i)

----------------------------------------------------------------------------

Next ==
  \/ G_Load \/ G_Budget \/ G_Timeline
  \/ E_Start \/ E_Loop \/ E_For \/ E_Step
  \/ P_Start \/ P_Loop \/ P_Select \/ P_For \/ P_All \/ P_Modify
  \/ P_Steps \/ P_Catches
  \/ R_Start \/ R_Loop \/ R_For \/ R_Prompt \/ R_Step \/ R_Points

Spec == Init /\ [][Next]_vars

\* the run of commands/run.ts alone, every enabled step eventually taken: the
\* event loop runs each continuation and every prompt is answered
InitRun == Init /\ engine = "run"

NextRun ==
  \/ G_Load \/ G_Budget \/ G_Timeline
  \/ R_Start \/ R_Loop \/ R_For \/ R_Prompt \/ R_Step \/ R_Points

FairRunSpec == InitRun /\ [][NextRun]_vars /\ WF_vars(NextRun)

\* the runs of every project, funded or not, in time or not, over the plans
\* of at most two tasks
GateShapes == {shape \in Shapes : Len(shape) <= 2}
InitGate == InitOf(GateShapes, Projects, FALSE)
GateSpec == InitGate /\ [][Next]_vars

\* run continues a project in phase EXECUTE (dev.ts executePlan, or the run
\* command given the file of such a project)
InitContinue == InitOf(Shapes, {FundedProject}, TRUE) /\ engine = "run"
ContinueSpec == InitContinue /\ [][NextRun]_vars

----------------------------------------------------------------------------
(* Properties *)

Tasks == 1..Len(tasks)

\* no executeTask call is in flight or waits for its caller
Quiet == \A i \in Tasks : exec[i] \notin InFlight \cup Settling

WellFormed(ts) == ~Cyclic(ts) /\ ~Dangling(ts)

\* the entries of a log for a task with an action
Entries(log, id, action) ==
  {k \in 1..Len(log) : log[k].taskId = id /\ log[k].action = action}

\* the executed set the engine at hand passes to getReadyTasks
ExecutedNow ==
  IF engine = "run" THEN Range(executionState.completedTasks) ELSE executedTasks

\* C1: in every engine a task is dispatched only when every task it depends
\* on has finished executing, and whenever both times are set its startTime
\* is not before the endTime of a task it depends on
C1_DependenciesFirst ==
  \A i \in Tasks :
    hist[i].dispatches # "never" =>
      /\ \A dep \in tasks[i].dependsOn :
           \E j \in Tasks : tasks[j].id = dep /\ hist[j].finished
      /\ \A j \in DepsOf(tasks, i) :
           tasks[i].startTime # <<>> /\ tasks[j].endTime # <<>>
             => tasks[i].startTime[1] >= tasks[j].endTime[1]

\* a task with a dependency has been dispatched, both times set
C1_Witness ==
  \E i \in Tasks :
    /\ hist[i].dispatches # "never"
    /\ tasks[i].startTime # <<>>
    /\ \E j \in DepsOf(tasks, i) : tasks[j].endTime # <<>>

\* C2 (as claimed): when the dependsOn relation has a cycle, no task of the
\* plan is ever dispatched, none leaves pending and the execution log stays
\* empty
C2_CycleRejectedBeforeDispatch ==
  Cyclic(tasks) =>
    /\ \A i \in Tasks : hist[i].dispatches = "never" /\ tasks[i].status = "pending"
    /\ executionLog = <<>>

\* C3 (as claimed): when a run of a well-formed plan has ended and all calls
\* have settled, every task that does not depend on a task whose side effect
\* failed is completed
C3_FailureIsolated ==
  (engine # "execute" /\ pc = "done" /\ Quiet /\ WellFormed(tasks)) =>
    \A a, b \in Tasks :
      (a # b /\ hist[a].failed /\ ~DependsOnTrans(tasks, b, a))
        => tasks[b].status = "completed"

\* C4 (as claimed): every run ends and hands the caller a result
C4_Terminates == <>(pc = "done")

\* C5: in a dry run no adapter operation is invoked, no job exists and no
\* side effect (adapter operation or preparation work) is ever awaited
C5_DryRunNoSideEffects ==
  options.dryRun =>
    /\ adapterCalls = {}
    /\ jobs = <<>>
    /\ \A i \in Tasks : exec[i] \notin InFlight

\* a dry run has dispatched a labor task
C5_Witness ==
  /\ options.dryRun
  /\ \E i \in Tasks : IsLaborTask(tasks[i]) /\ hist[i].finished

\* C6 (as claimed): an approve-all dry run of a well-formed plan ends
\* completed, in phase COMPLETED, with exactly one started and one completed
\* log entry per task and no other entry
C6_DryRunFullLog ==
  (engine # "execute" /\ pc = "done" /\ options.approveAll /\ options.dryRun
     /\ WellFormed(tasks)) =>
    /\ exit = "completed"
    /\ phase = "COMPLETED"
    /\ \A i \in Tasks :
         /\ Cardinality(Entries(executionLog, tasks[i].id, "started")) = 1
         /\ Cardinality(Entries(executionLog, tasks[i].id, "completed")) = 1
    /\ Len(executionLog) = Len(tasks) + Len(tasks)

\* C7 (as claimed): in phase COMPLETED every task is completed or cancelled,
\* and a run that ends with a failed or blocked task ends in phase FAILED
C7_CompletedMeansAllDone ==
  /\ phase = "COMPLETED" =>
       \A i \in Tasks : tasks[i].status \in {"completed", "cancelled"}
  /\ (engine # "execute" /\ pc = "done" /\ exit # "threw"
        /\ \E i \in Tasks : tasks[i].status \in {"failed", "blocked"})
       => phase = "FAILED"

\* C8: whenever an engine is about to compute the ready tasks of its plan
\* (the plan as loaded or as modified), for every executed set getReadyTasks
\* returns exactly the tasks that are not executed and whose dependencies are
\* all executed, in plan order; and the readyTasks a round starts with are
\* those tasks
C8_ReadyTasksExact ==
  /\ pc = "loop" =>
     \A executed \in SUBSET (Ids(tasks) \cup {"Z"}) :
       LET ready == getReadyTasks(tasks, executed) IN
       /\ Range(ready) = {k \in Tasks : /\ tasks[k].id \notin executed
                                        /\ tasks[k].dependsOn \subseteq executed}
       /\ \A a, b \in 1..Len(ready) : a < b => ready[a] < ready[b]
  /\ (pc \in {"for", "select"} /\ idx = 1) =>
       Range(readyTasks) = {k \in Tasks : /\ tasks[k].id \notin ExecutedNow
                                          /\ tasks[k].dependsOn \subseteq ExecutedNow}

\* a round starts with two ready tasks while a task waits for a dependency
C8_Witness ==
  /\ pc = "for" /\ idx = 1
  /\ Len(readyTasks) >= 2
  /\ \E k \in Tasks :
       /\ tasks[k].id \notin ExecutedNow
       /\ ~(tasks[k].dependsOn \subseteq ExecutedNow)
  /\ ExecutedNow # {}

\* C9 (as claimed): a task whose approval was rejected is never dispatched
\* and is offered for approval only that once
C9_RejectedNotReoffered ==
  \A i \in Tasks :
    hist[i].rejected => hist[i].dispatches = "never" /\ hist[i].offers = "once"

\* C10 (as claimed): no task is dispatched a second time
C10_AtMostOnce == \A i \in Tasks : hist[i].dispatches # "again"

\* C11 (as claimed): a task that depends, directly or transitively, on a task
\* whose side effect failed or whose approval was rejected in this run has
\* never been dispatched and is still pending (runs without modify mode, where
\* the user cannot cancel a task by hand)
C11_DependentsOfFailedStayPending ==
  \A a, b \in Tasks :
    (~options.modify /\ DependsOnTrans(tasks, b, a) /\ (hist[a].failed \/ hist[a].rejected))
      => hist[b].dispatches = "never" /\ tasks[b].status = "pending"

\* C12: when the plan's estimated cost exceeds the budget, approve-all is off
\* and the human answers no at the budget check, the run has ended cancelled,
\* no task was dispatched, no adapter operation ran and every task is pending
C12_BudgetRejectionCancels ==
  (project.estimatedCost > project.budgetTotal /\ ~options.approveAll
     /\ gates.budget = "rejected") =>
    /\ pc = "done" /\ exit = "cancelled"
    /\ \A i \in Tasks : hist[i].dispatches = "never" /\ tasks[i].status = "pending"
    /\ adapterCalls = {}
    /\ executionLog = <<>>

\* the human has rejected the budget overrun of a two-task plan
C12_Witness ==
  /\ gates.budget = "rejected"
  /\ project.estimatedCost > project.budgetTotal
  /\ exit = "cancelled"
  /\ Len(tasks) = 2

\* C13: with approve-all on, no budget check, timeline check, task approval or
\* approval point is ever put to the human, the run is never cancelled, and
\* a run of a well-formed plan that ran to its end has dispatched every task,
\* over budget and past its timeline or not
C13_ApproveAllNeverAsks ==
  options.approveAll =>
    /\ gates.budget \notin {"approved", "rejected"}
    /\ gates.timeline \notin {"approved", "rejected"}
    /\ \A p \in ApprovalPoints : gates.points[p].by # "human"
    /\ pc # "prompt"
    /\ \A i \in Tasks : hist[i].offers = "never"
    /\ exit # "cancelled"
    /\ (engine # "execute" /\ pc = "done" /\ exit = "completed" /\ WellFormed(tasks))
         => \A i \in Tasks : hist[i].dispatches # "never"

\* an approve-all run over budget and past its timeline, with approval
\* points and a task that requires approval, has ended with all tasks run
C13_Witness ==
  /\ options.approveAll
  /\ gates.budget = "auto" /\ gates.timeline = "auto"
  /\ gates.points["plan"].by = "auto" \/ gates.points["labor_hire"].by = "auto"
  /\ \E i \in Tasks : requiresApproval(tasks[i])
  /\ pc = "done" /\ exit = "completed" /\ WellFormed(tasks)
  /\ \A i \in Tasks : hist[i].dispatches # "never"

\* C14 (as claimed): when a dependsOn entry names an id that is no task of the
\* plan, no task is ever dispatched, none leaves pending and nothing is logged
C14_DanglingRejectedBeforeDispatch ==
  Dangling(tasks) =>
    /\ \A i \in Tasks : hist[i].dispatches = "never" /\ tasks[i].status = "pending"
    /\ executionLog = <<>>
    /\ executionState.executionLog = <<>>

\* C15 (as claimed): a run that has ended while a task is not yet done and
\* no task is ready reports that there was no progress and has not set the
\* phase COMPLETED
C15_NoProgressReported ==
  (pc = "done" /\ exit \in {"no_ready", "completed"}
     /\ (\E i \in Tasks : tasks[i].id \notin ExecutedNow)
     /\ getReadyTasks(tasks, ExecutedNow) = <<>>) =>
    /\ exit = "no_ready"
    /\ phase # "COMPLETED"

\* C16 (as claimed): in a dry run metadata.lastModified keeps the value the
\* project was loaded with and no task gets a startTime or an endTime
C16_DryRunLeavesProject ==
  options.dryRun =>
    /\ lastModified = 0
    /\ \A i \in Tasks : tasks[i].startTime = <<>> /\ tasks[i].endTime = <<>>

\* C17 (as claimed): no approval point is put to the human, or decided by
\* approve-all, a second time in a run
C17_ApprovalPointFiresOnce ==
  \A p \in ApprovalPoints : gates.points[p].fired # "again"

\* C18 (as claimed): no step changes the status of a task that is completed,
\* failed or cancelled
C18_TerminalStatusFrozen ==
  [][\A i \in Tasks :
       tasks[i].status \in {"completed", "failed", "cancelled"}
         => tasks'[i].status = tasks[i].status]_vars

\* the completed set a log yields: the task ids with a completed entry
CompletedIn(log) == {log[k].taskId : k \in {n \in 1..Len(log) : log[n].action = "completed"}}

\* C19 (as claimed): when a run has ended, state.completedTasks holds exactly
\* the task ids that have a completed entry in state.executionLog
C19_CompletedTasksFromLog ==
  pc = "done" => Range(completedTasks) = CompletedIn(executionLog)

\* C20 (as claimed): no step dispatches a task whose status is completed
C20_CompletedNotDispatched ==
  [][\A i \in Tasks :
       hist'[i].dispatches # hist[i].dispatches => tasks[i].status # "completed"]_vars

\* C21: when the project file's metadata.status is no ProjectStatus value, run
\* stops at loadPlan with the load error: no check of run is evaluated, no
\* task is dispatched and nothing of the project, the plan or the adapter has
\* changed
C21_InvalidRecordRejectedAtLoad ==
  project.status \notin ProjectStatus =>
    /\ pc \in {"load", "done"}
    /\ pc = "done" => exit = "load_error"
    /\ gates.budget = "none" /\ gates.timeline = "none"
    /\ \A p \in ApprovalPoints : gates.points[p].fired = "never"
    /\ \A i \in Tasks : hist[i] = NoHistory /\ tasks[i].status = "pending"
                          /\ tasks[i].startTime = <<>> /\ tasks[i].endTime = <<>>
    /\ phase = "PLAN" /\ executionLog = <<>> /\ completedTasks = <<>>
    /\ lastModified = 0
    /\ adapterCalls = {} /\ jobs = <<>>

\* run has thrown the load error for a file with an invalid metadata.status
C21_Witness ==
  /\ project.status = "INVALID_STATUS"
  /\ pc = "done" /\ exit = "load_error"

\* C22 (as claimed): in batch mode, whenever readiness is about to be
\* recomputed, the modify prompt is shown or executeAsync has returned or
\* thrown, no dispatched task is still in flight or unsettled
C22_RoundBarrier ==
  (engine = "plan" /\ ~options.interactive /\ pc \in {"loop", "modify", "done"})
    => Quiet

\* an approval point of the policy is triggered and not decided: in run.ts
\* not among the handled points, in Engine.execute labor_hire without
\* approve-all
UndecidedApprovalPoint ==
  CASE engine = "run" ->
         \E k \in 1..Len(policy) :
           /\ policy[k] \notin executionState.pendingApprovals
           /\ shouldTriggerApproval(policy[k])
    [] engine = "execute" -> "labor_hire" \in Range(policy) /\ ~options.approveAll
    [] OTHER -> FALSE

\* C23 (as claimed): no step dispatches a task while an approval point of
\* policy.humanApprovalPoints is triggered and not yet decided
C23_GatesBeforeDispatch ==
  [][(\E i \in Tasks : hist'[i].dispatches # hist[i].dispatches)
       => ~UndecidedApprovalPoint]_vars

\* C24: the modify prompt is shown only with modify on and dry run off, and
\* the step taken there (skip, new estimate, new task, or none) leaves the
\* log and every task that was dispatched or is completed as they were
C24_ModifyTouchesOnlyUndispatched ==
  [][pc = "modify" =>
       /\ options.modify /\ ~options.dryRun
       /\ executionLog' = executionLog
       /\ completedTasks' = completedTasks
       /\ \A i \in Tasks :
            (hist[i].dispatches # "never" \/ tasks[i].status = "completed")
              => tasks'[i] = tasks[i]]_vars

\* a task was cancelled in modify mode beside a completed task
C24_Witness ==
  /\ modifications > 0
  /\ \E i, j \in Tasks :
       /\ tasks[i].status = "cancelled" /\ hist[i].dispatches = "never"
       /\ tasks[j].status = "completed"

\* the status changes of the task lifecycle
Lifecycle ==
  { <<"pending", "in_progress">>, <<"in_progress", "completed">>,
    <<"in_progress", "failed">>, <<"pending", "blocked">>, <<"pending", "cancelled">> }

\* every completed or failed entry of a log comes after a started entry of
\* its task
StartedFirst(log) ==
  \A k \in 1..Len(log) :
    log[k].action \in {"completed", "failed"} =>
      \E n \in 1..(k - 1) : log[n].taskId = log[k].taskId /\ log[n].action = "started"

\* C25 (as claimed): every step that changes a task's status follows the
\* lifecycle, and in the log the engine writes a task's started entry
\* precedes its completed or failed entry
C25_LifecycleFollowed ==
  [][/\ \A i \in Tasks :
          tasks'[i].status # tasks[i].status
            => <<tasks[i].status, tasks'[i].status>> \in Lifecycle
     /\ StartedFirst(executionLog')
     /\ StartedFirst(executionState'.executionLog)]_vars

\* the ids of the tasks with a status
WithStatus(status) == {tasks[i].id : i \in {k \in Tasks : tasks[k].status = status}}

NoDuplicates(seq) == \A a, b \in 1..Len(seq) : seq[a] = seq[b] => a = b

\* C26 (as claimed): between rounds and at the end of a run, with every call
\* settled, state.completedTasks holds exactly the completed tasks, once
\* each, and the blocked set the engine keeps holds exactly the blocked tasks
C26_StateIsProjection ==
  (pc \in {"loop", "done"} /\ Quiet) =>
    /\ Range(completedTasks) = WithStatus("completed")
    /\ NoDuplicates(completedTasks)
    /\ executionState.blockedTasks = WithStatus("blocked")

\* C27: Engine.execute with labor_hire among the approval points and
\* approve-all off returns at its approval check: no task is dispatched, no
\* adapter operation runs and plan and project stay as they were passed in
C27_ExecuteStopsForLaborHire ==
  (engine = "execute" /\ "labor_hire" \in Range(policy) /\ ~options.approveAll) =>
    /\ pc \in {"start", "done"}
    /\ pc = "done" => exit = "approval_required"
    /\ \A i \in Tasks : /\ hist[i] = NoHistory /\ exec[i] = "idle"
                          /\ tasks[i].status = "pending"
                          /\ tasks[i].startTime = <<>> /\ tasks[i].endTime = <<>>
    /\ adapterCalls = {} /\ jobs = <<>>
    /\ phase = "PLAN" /\ executionLog = <<>> /\ completedTasks = <<>>
    /\ lastModified = 0

\* Engine.execute has returned at its approval check on a plan with a labor
\* task
C27_Witness ==
  /\ engine = "execute" /\ pc = "done" /\ exit = "approval_required"
  /\ \E i \in Tasks : IsLaborTask(tasks[i])

\* C28 (as claimed): outside a dry run, a step reports a labor task completed
\* (status completed, or added to executedTasks by Engine.execute) only as the
\* return of markDone on the task's job, which was accepted and becomes
\* completed; and a job's status only moves posted, accepted, completed
C28_LaborCompletedMeansJobDone ==
  [][/\ \A i \in Tasks :
          (/\ ~options.dryRun /\ IsLaborTask(tasks[i])
           /\ \/ tasks'[i].status = "completed" /\ tasks[i].status # "completed"
              \/ engine = "execute" /\ tasks[i].id \in executedTasks' \ executedTasks)
            => /\ exec[i] = "markDone"
               /\ jobOf[i] \in 1..Len(jobs)
               /\ jobs[jobOf[i]] = "accepted" /\ jobs'[jobOf[i]] = "completed"
     /\ \A j \in 1..Len(jobs) :
          jobs'[j] # jobs[j]
            => <<jobs[j], jobs'[j]>> \in {<<"posted", "accepted">>, <<"accepted", "completed">>}]_vars

\* the tasks appended in modify mode: those the taskMap built at the start of
\* executeAsync does not hold
Appended == {i \in Tasks : engine = "plan" /\ pc # "start" /\ i > taskMapSize}

\* C29 (as claimed): phase COMPLETED is never set while an appended task has
\* not been executed, and a run of a well-formed plan in which no side effect
\* failed does not end before every appended task was dispatched
C29_AppendedTaskDispatched ==
  /\ phase = "COMPLETED" => \A i \in Appended : hist[i].finished
  /\ (pc = "done" /\ WellFormed(tasks) /\ \A i \in Tasks : ~hist[i].failed)
       => \A i \in Appended : hist[i].dispatches # "never"

\* C30 (as claimed): the entries of state.executionLog have pairwise distinct
\* ids
C30_LogIdsDistinct ==
  \A a, b \in 1..Len(executionLog) :
    executionLog[a].id = executionLog[b].id => a = b

====
